---- MODULE Spec2Model ----
(***************************************************************************)
(* The note lifecycle of pyPrivnote (src/pyPrivnote/model.py): the         *)
(* PrivMessage object, its property getters and setters, set_settings,     *)
(* encrypt, decrypt, send and read_and_destroy, against the cipher         *)
(* primitive and the request executor it calls.                            *)
(*                                                                         *)
(* Text is a sequence of atoms.  An atom is a run of ASCII characters that *)
(* holds neither '#' nor a piece of the service origin ("abc123"), or one  *)
(* of the pieces the code looks for: "https://", "privnote.com/", "#".     *)
(* The one non-ASCII character is "eacute", whose UTF-8 form is the two    *)
(* bytes xC3 xA9; xFF is a byte that is no UTF-8.  A Python value is a     *)
(* record [k |-> its type, v |-> its atoms].                               *)
(***************************************************************************)
EXTENDS Integers, Sequences, FiniteSets, TLC

VARIABLES note, calls, server, log, steps

vars == <<note, calls, server, log, steps>>

-----------------------------------------------------------------------------
(* Python values *)

PyNone == [k |-> "NoneType", v |-> <<>>]
PyFalse == [k |-> "bool", v |-> <<>>]
Str(s) == [k |-> "str", v |-> s]
Bytes(b) == [k |-> "bytes", v |-> b]
ByteArray(b) == [k |-> "bytearray", v |-> b]

\* bool(x) for the values above (the only bool passed is False)
Truthy(x) == x.k \in {"str", "bytes", "bytearray"} /\ x.v # <<>>

\* the result of an expression: an exception name ("none" when it returns) and a value
Ok(val) == [exc |-> "none", val |-> val]
Raise(e) == [exc |-> e, val |-> PyNone]

SCHEME == "https://"
HOST == "privnote.com/"
HASH == "#"
ORIGIN == <<SCHEME, HOST>>

-----------------------------------------------------------------------------
(* str and bytes methods *)

\* str.encode("utf-8") on the atoms of a text
RECURSIVE Utf8Encode(_)
Utf8Encode(s) ==
    IF s = <<>> THEN <<>>
    ELSE (IF Head(s) = "eacute" THEN <<"xC3", "xA9">> ELSE <<Head(s)>>) \o Utf8Encode(Tail(s))

\* whether bytes.decode() raises UnicodeDecodeError
RECURSIVE Utf8Valid(_)
Utf8Valid(b) ==
    IF b = <<>> THEN TRUE
    ELSE IF Head(b) = "xC3" THEN Len(b) >= 2 /\ b[2] = "xA9" /\ Utf8Valid(Tail(Tail(b)))
    ELSE Head(b) \notin {"xA9", "xFF"} /\ Utf8Valid(Tail(b))

\* bytes.decode() of valid UTF-8
RECURSIVE Utf8Decode(_)
Utf8Decode(b) ==
    IF b = <<>> THEN <<>>
    ELSE IF Head(b) = "xC3" THEN <<"eacute">> \o Utf8Decode(Tail(Tail(b)))
    ELSE <<Head(b)>> \o Utf8Decode(Tail(b))

\* s.startswith(p)
StartsWith(s, p) == Len(s) >= Len(p) /\ SubSeq(s, 1, Len(p)) = p

\* the least index at which sep occurs in s, 0 when it does not (str.find + 1)
Find(s, sep) ==
    LET hits == {i \in 1..(Len(s) - Len(sep) + 1) : SubSeq(s, i, i + Len(sep) - 1) = sep}
    IN IF hits = {} THEN 0 ELSE CHOOSE i \in hits : \A j \in hits : i <= j

\* s.split(sep): the list of pieces
RECURSIVE Split(_, _)
Split(s, sep) ==
    LET i == Find(s, sep)
    IN IF i = 0 THEN <<s>>
       ELSE <<SubSeq(s, 1, i - 1)>> \o Split(SubSeq(s, i + Len(sep), Len(s)), sep)

\* s.split(sep, maxsplit=1) when sep is in s
SplitOnce(s, sep) ==
    LET i == Find(s, sep)
    IN <<SubSeq(s, 1, i - 1), SubSeq(s, i + Len(sep), Len(s))>>

\* s.replace(old, "")
RECURSIVE Remove(_, _)
Remove(s, old) ==
    LET i == Find(s, old)
    IN IF i = 0 THEN s
       ELSE SubSeq(s, 1, i - 1) \o Remove(SubSeq(s, i + Len(old), Len(s)), old)

\* sub in s
Contains(s, sub) == Find(s, sub) # 0

-----------------------------------------------------------------------------
(* The PrivMessage object *)

NoSettings ==
    [k |-> "NoneType", data_type |-> "", has_manual_pass |-> "", duration_hours |-> 0,
     dont_ask |-> "", notify_email |-> <<>>, notify_ref |-> <<>>]

\* a response: None, or a dict with the keys in `keys`
NoResponse ==
    [k |-> "NoneType", keys |-> {}, note_link |-> <<>>, has_manual_pass |-> FALSE,
     data |-> <<>>, destroyed |-> <<>>]

\* PrivMessage.__init__
NewMessage ==
    [_plain_text |-> PyNone, _crypt_text |-> PyNone, _link |-> PyNone, _id |-> PyNone,
     _password |-> PyNone, _is_crypted |-> FALSE, _settings |-> NoSettings,
     _response |-> NoResponse]

\* the password property: the secret as text
PasswordGet(self) ==
    IF ~Truthy(self._password) THEN Raise("ValueError")
    ELSE IF self._password.k = "str" THEN Raise("AttributeError")
    ELSE IF ~Utf8Valid(self._password.v) THEN Raise("UnicodeDecodeError")
    ELSE Ok(Str(Utf8Decode(self._password.v)))

\* the password setter with the bytes branch left out
PasswordSet_StrOnly(self, value) ==
    IF value.k = "str" THEN [self EXCEPT !._password = Bytes(Utf8Encode(value.v))]
    ELSE self

\* the password setter: text is encoded, bytes are kept, anything else is ignored
PasswordSet(self, value) ==
    IF value.k = "str" THEN [self EXCEPT !._password = Bytes(Utf8Encode(value.v))]
    ELSE IF value.k \in {"bytes", "bytearray"} THEN [self EXCEPT !._password = value]
    ELSE self

\* the link property
LinkGet(self) ==
    LET r == self._response
    IN IF r.k = "NoneType" THEN Raise("TypeError")
       ELSE IF r.keys = {} THEN Raise("KeyError")
       ELSE IF "has_manual_pass" \notin r.keys THEN Raise("KeyError")
       ELSE IF "note_link" \notin r.keys THEN Raise("KeyError")
       ELSE IF r.has_manual_pass THEN Ok(Str(r.note_link))
       ELSE LET p == PasswordGet(self)
            IN IF p.exc # "none" THEN p
               ELSE Ok(Str(r.note_link \o <<HASH>> \o p.val.v))

\* the link setter: [exc, self]
LinkSet(self, value) ==
    LET pieces == Split(value, ORIGIN)
        bad == StartsWith(value, <<HOST>>) /\ Len(pieces) < 2
        rest == IF StartsWith(value, <<HOST>>) THEN pieces[2] ELSE value
        two == SplitOnce(rest, <<HASH>>)
    IN IF bad THEN [exc |-> "IndexError", self |-> self]
       ELSE IF Contains(rest, <<HASH>>)
            THEN [exc |-> "none",
                  self |-> [self EXCEPT !._id = Str(two[1]), !._password = Str(two[2])]]
       ELSE [exc |-> "none",
             self |-> [self EXCEPT !._id = Str(rest), !._password = PyNone]]

\* the id property
IdGet(self) ==
    IF Truthy(self._id) THEN Ok(self._id)
    ELSE IF self._response.k = "NoneType" THEN Raise("TypeError")
    ELSE IF "note_link" \notin self._response.keys THEN Raise("KeyError")
    ELSE Ok(Str(Remove(self._response.note_link, ORIGIN)))

\* the id setter
IdSet(self, value) ==
    [self EXCEPT !._id = Str(value), !._link = Str(ORIGIN \o value)]

\* the plain_text property
PlainTextGet(self) == self._plain_text

-----------------------------------------------------------------------------
(* The collaborators: util, crypt, the request executor and the service *)

\* util.score_password(): the generated passwords, alphanumeric text
GeneratedPasswords == {<<"g7Kp2QxZ9">>, <<"Zq4Lm8Tn1">>}

\* util.is_email(address): local part, "@", domain
is_email(address) == Len(address.v) = 3 /\ address.v[2] = "@"

\* the bytes a secret or a plaintext is made of
ByteAtoms ==
    {"hello", "bye", "mysecret", "other", "key", "a", "b", HASH, "xC3", "xA9", "xFF",
     "g7Kp2QxZ9", "Zq4Lm8Tn1"}

\* the transmissible form of one byte inside a ciphertext
Armor(t) == "=" \o t

Unarmor(a) == CHOOSE t \in ByteAtoms : Armor(t) = a

IsArmor(a) == \E t \in ByteAtoms : Armor(t) = a

SALTED == "U2FsdGVkX1"
KEYMARK == "//"

\* a ciphertext's atoms: the marker, the armored plaintext, the armored key
Sealed(p, key) ==
    <<SALTED>> \o [i \in 1..Len(p) |-> Armor(p[i])] \o <<KEYMARK>>
        \o [i \in 1..Len(key) |-> Armor(key[i])]

WellSealed(c) ==
    /\ Len(c) >= 2 /\ c[1] = SALTED
    /\ \E i \in 2..Len(c) :
         /\ c[i] = KEYMARK
         /\ \A j \in 2..Len(c) : j # i => IsArmor(c[j])

SealedPlain(c) ==
    LET i == Find(c, <<KEYMARK>>) IN [j \in 1..(i - 2) |-> Unarmor(c[j + 1])]

SealedKey(c) ==
    LET i == Find(c, <<KEYMARK>>) IN [j \in 1..(Len(c) - i) |-> Unarmor(c[i + j])]

\* crypt.enc(plaintext, password); u is what the primitive raises outside its contract
enc(plaintext, password, u) ==
    IF plaintext.k # "str" \/ password.k \notin {"bytes", "bytearray"} THEN Raise(u)
    ELSE Ok(Bytes(Sealed(Utf8Encode(plaintext.v), password.v)))

\* crypt.dec(ciphertext, password)
dec(ciphertext, password, u) ==
    IF ciphertext.k \notin {"str", "bytes"} \/ password.k \notin {"bytes", "bytearray"}
    THEN Raise(u)
    ELSE IF ~WellSealed(ciphertext.v) THEN Raise("ValueError")
    ELSE IF SealedKey(ciphertext.v) # password.v THEN Raise("ValueError")
    ELSE IF ~Utf8Valid(SealedPlain(ciphertext.v)) THEN Raise("ValueError")
    ELSE Ok(Str(Utf8Decode(SealedPlain(ciphertext.v))))

\* what the primitive may raise when handed no secret or a secret that is no bytes
Misuse == {"ValueError", "TypeError"}

\* the identifiers the service hands out
Ids == {"abc123", "xyz789"}

\* the caller's budget of calls
MaxSteps == 4

DESTROYED_AT == "2024-01-01T00:00:00.000000"

\* the service before any note is created
NoRecord == [state |-> "free", data |-> <<>>, served |-> 0]

\* the identifier a URL addresses: its path, without the fragment
Addressed(url) ==
    LET path == IF Contains(url, <<HASH>>) THEN SplitOnce(url, <<HASH>>)[1] ELSE url
    IN Remove(path, ORIGIN)

\* the JSON of the create response
Created(i, manual) ==
    [k |-> "dict", keys |-> {"note_link", "has_manual_pass"}, note_link |-> ORIGIN \o <<i>>,
     has_manual_pass |-> manual, data |-> <<>>, destroyed |-> <<>>]

\* the JSON of the read responses
WithData(d) ==
    [k |-> "dict", keys |-> {"data"}, note_link |-> <<>>, has_manual_pass |-> FALSE,
     data |-> d, destroyed |-> <<>>]

WithDestroyed(t) ==
    [k |-> "dict", keys |-> {"destroyed"}, note_link |-> <<>>, has_manual_pass |-> FALSE,
     data |-> <<>>, destroyed |-> <<t>>]

Blank ==
    [k |-> "dict", keys |-> {}, note_link |-> <<>>, has_manual_pass |-> FALSE,
     data |-> <<>>, destroyed |-> <<>>]

\* what the service answers to a destructive read of `url`
ReadAnswer(url) ==
    LET i == Addressed(url)
    IN IF Len(i) = 1 /\ i[1] \in Ids /\ server[i[1]].state = "live"
          THEN WithData(server[i[1]].data)
       ELSE IF Len(i) = 1 /\ i[1] \in Ids /\ server[i[1]].state = "destroyed"
          THEN WithDestroyed(DESTROYED_AT)
       ELSE Blank

\* the service after that read: a live note is destroyed by it
AfterRead(url) ==
    LET i == Addressed(url)
    IN IF Len(i) = 1 /\ i[1] \in Ids /\ server[i[1]].state = "live"
       THEN [server EXCEPT ![i[1]].state = "destroyed", ![i[1]].served = @ + 1]
       ELSE server

\* datetime.strptime(t, "%Y-%m-%dT%H:%M:%S.%f") accepts t
Strptime(t) == t = DESTROYED_AT

-----------------------------------------------------------------------------
(* The operations.  `steps` is the number of steps still to be taken;       *)
(* `calls` holds the latest calls (as many as it held at the start), each   *)
(* with its arguments and the way it ended; `log` holds the requests handed *)
(* to the request executor, each with the secret the note held and the      *)
(* answer it got.                                                           *)

Notes == {"n1", "n2"}

NoPayload ==
    [data_type |-> "", has_manual_pass |-> "", duration_hours |-> 0, dont_ask |-> "",
     notify_email |-> <<>>, notify_ref |-> <<>>, data |-> PyNone]

\* duration_hours: None or an integer
NoDuration == [k |-> "NoneType", n |-> 0]
Hours(h) == [k |-> "int", n |-> h]

\* a call on note n, made with `steps` steps to go, that ended with `exc` ("none": it
\* returned) after handing nreq requests to the executor; data, value, hours and
\* email are the arguments it was given
CalledWith(n, op, exc, nreq, destroyed, data, value, hours, email) ==
    /\ steps > 0
    /\ steps' = steps - 1
    /\ calls' = Append(Tail(calls), [at |-> steps, n |-> n, op |-> op, exc |-> exc,
                                     nreq |-> nreq, destroyed |-> destroyed,
                                     data |-> data, value |-> value, hours |-> hours,
                                     email |-> email])

Called(n, op, exc, nreq, destroyed, data, value) ==
    CalledWith(n, op, exc, nreq, destroyed, data, value, NoDuration, PyFalse)

Call(n, op, exc, nreq, destroyed) == Called(n, op, exc, nreq, destroyed, <<>>, PyNone)

\* note.password = value
SetPassword(n, value) ==
    /\ note' = [note EXCEPT ![n] = PasswordSet(note[n], value)]
    /\ Called(n, "password", "none", 0, <<>>, <<>>, value)
    /\ UNCHANGED <<server, log>>

\* note.link = value
SetLink(n, value) ==
    LET r == LinkSet(note[n], value)
    IN /\ note' = [note EXCEPT ![n] = r.self]
       /\ Called(n, "link", r.exc, 0, <<>>, <<>>, Str(value))
       /\ UNCHANGED <<server, log>>

\* note.id = value
SetId(n, value) ==
    /\ note' = [note EXCEPT ![n] = IdSet(note[n], value)]
    /\ Called(n, "id", "none", 0, <<>>, <<>>, Str(value))
    /\ UNCHANGED <<server, log>>

\* set_settings with the limit of line 144 tested by >= in place of >
BuildSettings_LimitExclusive(self, data, manual_pass, duration_hours, ask_confirm, notify_email, email_ref_name, generated) ==
    LET password == IF manual_pass.k \in {"str", "bytes"} THEN manual_pass
                    ELSE Str(generated)
        settings ==
            [k |-> "dict", data_type |-> "T",
             has_manual_pass |-> IF Truthy(manual_pass) THEN "true" ELSE "false",
             duration_hours |-> IF duration_hours.k = "int" THEN duration_hours.n ELSE 0,
             dont_ask |-> IF ask_confirm THEN "False" ELSE "True",
             notify_email |-> IF Truthy(notify_email) THEN notify_email.v ELSE <<>>,
             notify_ref |-> IF Truthy(notify_email) THEN email_ref_name ELSE <<>>]
    IN IF duration_hours.k = "int" /\ duration_hours.n >= 720
          THEN [exc |-> "ValueError", self |-> self]
       ELSE IF Truthy(notify_email) /\ ~is_email(notify_email)
          THEN [exc |-> "ValueError", self |-> self]
       ELSE [exc |-> "none",
             self |-> [PasswordSet([self EXCEPT !._plain_text = Str(data)], password)
                         EXCEPT !._settings = settings]]

\* set_settings with the assignment of line 159 made before the checks of lines
\* 144 and 152
BuildSettings_StoreFirst(self, data, manual_pass, duration_hours, ask_confirm, notify_email, email_ref_name, generated) ==
    LET password == IF manual_pass.k \in {"str", "bytes"} THEN manual_pass
                    ELSE Str(generated)
        settings ==
            [k |-> "dict", data_type |-> "T",
             has_manual_pass |-> IF Truthy(manual_pass) THEN "true" ELSE "false",
             duration_hours |-> IF duration_hours.k = "int" THEN duration_hours.n ELSE 0,
             dont_ask |-> IF ask_confirm THEN "False" ELSE "True",
             notify_email |-> IF Truthy(notify_email) THEN notify_email.v ELSE <<>>,
             notify_ref |-> IF Truthy(notify_email) THEN email_ref_name ELSE <<>>]
        stored == [self EXCEPT !._plain_text = Str(data)]
    IN IF duration_hours.k = "int" /\ duration_hours.n > 720
          THEN [exc |-> "ValueError", self |-> stored]
       ELSE IF Truthy(notify_email) /\ ~is_email(notify_email)
          THEN [exc |-> "ValueError", self |-> stored]
       ELSE [exc |-> "none",
             self |-> [PasswordSet(stored, password) EXCEPT !._settings = settings]]

\* what set_settings builds and stores: [exc, self]
BuildSettings(self, data, manual_pass, duration_hours, ask_confirm, notify_email, email_ref_name, generated) ==
    LET password == IF manual_pass.k \in {"str", "bytes"} THEN manual_pass
                    ELSE Str(generated)
        settings ==
            [k |-> "dict", data_type |-> "T",
             has_manual_pass |-> IF Truthy(manual_pass) THEN "true" ELSE "false",
             duration_hours |-> IF duration_hours.k = "int" THEN duration_hours.n ELSE 0,
             dont_ask |-> IF ask_confirm THEN "False" ELSE "True",
             notify_email |-> IF Truthy(notify_email) THEN notify_email.v ELSE <<>>,
             notify_ref |-> IF Truthy(notify_email) THEN email_ref_name ELSE <<>>]
    IN IF duration_hours.k = "int" /\ duration_hours.n > 720
          THEN [exc |-> "ValueError", self |-> self]
       ELSE IF Truthy(notify_email) /\ ~is_email(notify_email)
          THEN [exc |-> "ValueError", self |-> self]
       ELSE [exc |-> "none",
             self |-> [PasswordSet([self EXCEPT !._plain_text = Str(data)], password)
                         EXCEPT !._settings = settings]]

\* note.set_settings(data, manual_pass, duration_hours, ask_confirm, notify_email, ...)
SetSettings(n, data, manual_pass, duration_hours, ask_confirm, notify_email, email_ref_name, generated) ==
    LET r == BuildSettings(note[n], data, manual_pass, duration_hours, ask_confirm,
                           notify_email, email_ref_name, generated)
    IN /\ note' = [note EXCEPT ![n] = r.self]
       /\ CalledWith(n, "set_settings", r.exc, 0, <<>>, data, manual_pass, duration_hours,
                     notify_email)
       /\ UNCHANGED <<server, log>>

\* encrypt and decrypt without their except clause
CipherError_Unmapped(e) == e

\* the exception encrypt and decrypt turn the primitive's ValueError into
CipherError(e) == IF e = "ValueError" THEN "IncorrectPasswordException" ELSE e

\* note.decrypt()
Decrypt(n, u) ==
    LET r == dec(note[n]._crypt_text, note[n]._password, u)
    IN /\ note' = IF r.exc = "none" THEN [note EXCEPT ![n]._plain_text = r.val] ELSE note
       /\ Call(n, "decrypt", CipherError(r.exc), 0, <<>>)
       /\ UNCHANGED <<server, log>>

\* note.encrypt()
Encrypt(n, u) ==
    LET r == enc(note[n]._plain_text, note[n]._password, u)
    IN /\ note' = IF r.exc = "none" THEN [note EXCEPT ![n]._crypt_text = r.val] ELSE note
       /\ Call(n, "encrypt", CipherError(r.exc), 0, <<>>)
       /\ UNCHANGED <<server, log>>

\* send falling back on the plaintext when the note holds no ciphertext
DataToSend_PlainFallback(self) ==
    LET t == self._settings
        c == IF self._crypt_text.k = "NoneType" /\ self._plain_text.k = "str"
             THEN Bytes(Utf8Encode(self._plain_text.v))
             ELSE self._crypt_text
    IN IF t.k = "NoneType" THEN [exc |-> "TypeError", payload |-> NoPayload]
       ELSE IF c.k \notin {"bytes", "bytearray"}
          THEN [exc |-> "AttributeError", payload |-> NoPayload]
       ELSE IF ~Utf8Valid(c.v) THEN [exc |-> "UnicodeDecodeError", payload |-> NoPayload]
       ELSE [exc |-> "none",
             payload |-> [data_type |-> t.data_type, has_manual_pass |-> t.has_manual_pass,
                          duration_hours |-> t.duration_hours, dont_ask |-> t.dont_ask,
                          notify_email |-> t.notify_email, notify_ref |-> t.notify_ref,
                          data |-> Str(Utf8Decode(c.v))]]

\* the payload send builds: [exc, payload]
DataToSend(self) ==
    LET t == self._settings
        c == self._crypt_text
    IN IF t.k = "NoneType" THEN [exc |-> "TypeError", payload |-> NoPayload]
       ELSE IF c.k \notin {"bytes", "bytearray"}
          THEN [exc |-> "AttributeError", payload |-> NoPayload]
       ELSE IF ~Utf8Valid(c.v) THEN [exc |-> "UnicodeDecodeError", payload |-> NoPayload]
       ELSE [exc |-> "none",
             payload |-> [data_type |-> t.data_type, has_manual_pass |-> t.has_manual_pass,
                          duration_hours |-> t.duration_hours, dont_ask |-> t.dont_ask,
                          notify_email |-> t.notify_email, notify_ref |-> t.notify_ref,
                          data |-> Str(Utf8Decode(c.v))]]

Request(n, method, url, payload, answer) ==
    [n |-> n, method |-> method, url |-> url, payload |-> payload,
     secret |-> note[n]._password, answer |-> answer]

\* what a response holds, as the log keeps it
Answer(o, r) ==
    IF o \in {"fail", "html"} THEN o
    ELSE IF "data" \in r.keys THEN "data"
    ELSE IF "destroyed" \in r.keys THEN "destroyed"
    ELSE IF "note_link" \in r.keys THEN "created"
    ELSE "blank"

CREATE_URL == ORIGIN \o <<"legacy/">>

\* the ways the executor's call ends: the service answers as it should ("serve"), it
\* answers a body that is no JSON ("html"), it answers a mapping with neither data
\* nor destroyed ("blank"), or the transport raises ("fail")
Outcomes == {"serve", "html", "blank", "fail"}

\* the identifier the service gives the next note, in the order it hands them out
IdOrder == <<"abc123", "xyz789">>

FreeIds == {j \in 1..Len(IdOrder) : server[IdOrder[j]].state = "free"}

NextId == IdOrder[CHOOSE j \in FreeIds : \A m \in FreeIds : j <= m]

\* send posting a second time when the transport fails
Send_Retry(n, o) ==
    LET d == DataToSend(note[n])
        q == Request(n, "POST", CREATE_URL, d.payload,
                     IF o = "serve" /\ FreeIds = {} THEN "html"
                     ELSE Answer(o, Created("", FALSE)))
    IN IF d.exc # "none"
       THEN /\ Call(n, "send", d.exc, 0, <<>>)
            /\ UNCHANGED <<note, server, log>>
       ELSE IF o = "fail"
       THEN /\ log' = log \o <<q, q>>
            /\ Call(n, "send", "ConnectionError", 2, <<>>)
            /\ UNCHANGED <<note, server>>
       ELSE /\ log' = Append(log, q)
            /\ IF o # "serve" \/ FreeIds = {}
               THEN /\ Call(n, "send", "ValueError", 1, <<>>)
                    /\ UNCHANGED <<note, server>>
               ELSE /\ server' = [server EXCEPT ![NextId] = [state |-> "live",
                                     data |-> d.payload.data.v, served |-> 0]]
                    /\ note' = [note EXCEPT ![n]._response =
                                   Created(NextId, d.payload.has_manual_pass = "true")]
                    /\ Call(n, "send", "none", 1, <<>>)

\* note.send()
Send(n, o) ==
    LET d == DataToSend(note[n])
    IN IF d.exc # "none"
       THEN /\ Call(n, "send", d.exc, 0, <<>>)
            /\ UNCHANGED <<note, server, log>>
       ELSE /\ log' = Append(log, Request(n, "POST", CREATE_URL, d.payload,
                                        IF o = "serve" /\ FreeIds = {} THEN "html"
                                        ELSE Answer(o, Created("", FALSE))))
            /\ IF o = "fail"
               THEN /\ Call(n, "send", "ConnectionError", 1, <<>>)
                    /\ UNCHANGED <<note, server>>
               ELSE IF o # "serve" \/ FreeIds = {}
               THEN /\ Call(n, "send", "ValueError", 1, <<>>)
                    /\ UNCHANGED <<note, server>>
               ELSE /\ server' = [server EXCEPT ![NextId] = [state |-> "live",
                                     data |-> d.payload.data.v, served |-> 0]]
                    /\ note' = [note EXCEPT ![n]._response =
                                   Created(NextId, d.payload.has_manual_pass = "true")]
                    /\ Call(n, "send", "none", 1, <<>>)

\* read_and_destroy with the two exceptions of lines 89 and 98 exchanged
ReadError_Swapped(o, r) ==
    IF o = "fail" THEN [exc |-> "ConnectionError", destroyed |-> <<>>]
    ELSE IF o = "html" THEN [exc |-> "PrivnoteException", destroyed |-> <<>>]
    ELSE IF "data" \in r.keys /\ r.data # <<>> THEN [exc |-> "none", destroyed |-> <<>>]
    ELSE IF "destroyed" \in r.keys /\ r.destroyed # <<>>
       THEN [exc |-> "NoteDestroyedException", destroyed |-> r.destroyed]
    ELSE [exc |-> "IncorrectIDException", destroyed |-> <<>>]

\* read_and_destroy without the check for a response that holds no data
ReadError_NoRaise(o, r) ==
    IF o = "fail" THEN [exc |-> "ConnectionError", destroyed |-> <<>>]
    ELSE IF o = "html" THEN [exc |-> "IncorrectIDException", destroyed |-> <<>>]
    ELSE [exc |-> "none", destroyed |-> <<>>]

\* what read_and_destroy makes of the executor's answer r: the exception it raises
\* and the timestamp the exception carries
ReadError(o, r) ==
    IF o = "fail" THEN [exc |-> "ConnectionError", destroyed |-> <<>>]
    ELSE IF o = "html" THEN [exc |-> "IncorrectIDException", destroyed |-> <<>>]
    ELSE IF "data" \in r.keys /\ r.data # <<>> THEN [exc |-> "none", destroyed |-> <<>>]
    ELSE IF "destroyed" \in r.keys /\ r.destroyed # <<>>
       THEN IF Strptime(r.destroyed[1])
            THEN [exc |-> "NoteDestroyedException", destroyed |-> r.destroyed]
            ELSE [exc |-> "ValueError", destroyed |-> <<>>]
    ELSE [exc |-> "PrivnoteException", destroyed |-> <<>>]

\* note.read_and_destroy()
ReadAndDestroy(n, o) ==
    LET l == LinkGet(note[n])
        r == IF o = "blank" THEN Blank ELSE ReadAnswer(l.val.v)
        e == ReadError(o, r)
    IN IF l.exc # "none"
       THEN /\ Call(n, "read_and_destroy", l.exc, 0, <<>>)
            /\ UNCHANGED <<note, server, log>>
       ELSE /\ log' = Append(log, Request(n, "DELETE", l.val.v, NoPayload, Answer(o, r)))
            /\ server' = IF o = "serve" THEN AfterRead(l.val.v) ELSE server
            /\ note' = IF o \in {"fail", "html"} THEN note
                       ELSE IF e.exc = "none"
                          THEN [note EXCEPT ![n]._response = r,
                                            ![n]._crypt_text = Str(r.data)]
                       ELSE [note EXCEPT ![n]._response = r]
            /\ Call(n, "read_and_destroy", e.exc, 1, e.destroyed)

\* the service destroys a note whose retention has run out
Expire(i) ==
    /\ server[i].state = "live"
    /\ server' = [server EXCEPT ![i].state = "destroyed"]
    /\ steps > 0
    /\ steps' = steps - 1
    /\ UNCHANGED <<note, calls, log>>

-----------------------------------------------------------------------------
(* The lifecycle: any calls on two notes *)

NoCall ==
    [at |-> 0, n |-> "", op |-> "", exc |-> "none", nreq |-> 0, destroyed |-> <<>>, data |-> <<>>,
     value |-> PyNone, hours |-> NoDuration, email |-> PyFalse]

Start(budget, window) ==
    /\ note = [n \in Notes |-> NewMessage]
    /\ calls = [j \in 1..window |-> NoCall]
    /\ server = [i \in Ids |-> NoRecord]
    /\ log = <<>>
    /\ steps = budget

Init == Start(MaxSteps, 1)

\* the links the caller can read off the notes and hand on
ReadableLinks == {LinkGet(note[m]).val.v : m \in {k \in Notes : LinkGet(note[k]).exc = "none"}}

ManualPasses == {PyFalse, Str(<<"mysecret">>), ByteArray(<<"key">>)}

Passwords == {Str(<<"other">>), Str(<<"a", HASH, "b">>)}

Links ==
    {ORIGIN \o <<"abc123", HASH, "mysecret">>, <<HOST, "abc123", HASH, "mysecret">>,
     ORIGIN \o <<"abc123">>}

\* the calls a caller can make on note n
Calls(n) ==
    \/ \E mp \in ManualPasses, g \in GeneratedPasswords :
           SetSettings(n, <<"hello">>, mp, NoDuration, TRUE, PyFalse, <<>>, g)
    \/ \E v \in Passwords : SetPassword(n, v)
    \/ \E v \in Links \cup ReadableLinks : SetLink(n, v)
    \/ \E i \in Ids : SetId(n, <<i>>)
    \/ \E u \in Misuse : Encrypt(n, u)
    \/ \E u \in Misuse : Decrypt(n, u)
    \/ \E o \in Outcomes \ {"blank"} : Send(n, o)
    \/ \E o \in Outcomes : ReadAndDestroy(n, o)

Next ==
    \/ \E n \in Notes : Calls(n)
    \/ \E i \in Ids : Expire(i)

Spec == Init /\ [][Next]_vars

\* the latest call, and whether it was `op` on note n
Last == calls[Len(calls)]

LastIs(n, op) == Last.n = n /\ Last.op = op

(* One note, driven through a longer run of calls *)

MaxCalls == 5

InitOne == Start(MaxCalls, 1)

NextOne ==
    \/ Calls("n1")
    \/ \E i \in Ids : Expire(i)

SpecOne == InitOne /\ [][NextOne]_vars

(* The write path: one note is configured, encrypted, decrypted and sent,   *)
(* with every kind of manual_pass; the three latest calls are kept          *)

MaxCreate == 3

InitCreate == Start(MaxCreate, 3)

Plaintexts == {<<>>, <<"hello">>, <<"eacute", HASH, "bye">>}

AllManualPasses ==
    {PyFalse, Str(<<>>), Str(<<"mysecret">>), Str(<<"a", HASH, "b">>), Bytes(<<"key">>),
     Bytes(<<"xFF">>), ByteArray(<<"key">>)}

NextCreate ==
    \/ \E data \in Plaintexts, mp \in AllManualPasses, g \in GeneratedPasswords :
           SetSettings("n1", data, mp, NoDuration, TRUE, PyFalse, <<>>, g)
    \/ \E u \in Misuse : Encrypt("n1", u)
    \/ \E u \in Misuse : Decrypt("n1", u)
    \/ \E o \in Outcomes \ {"blank"} : Send("n1", o)

SpecCreate == InitCreate /\ [][NextCreate]_vars

(* The settings: one note is configured again and again, with every kind   *)
(* of option                                                                *)

MaxSettings == 2

InitSettings == Start(MaxSettings, 1)

Durations == {NoDuration, Hours(0), Hours(720), Hours(721), Hours(-1)}

SecretKinds ==
    {PyFalse, Str(<<>>), Str(<<"mysecret">>), Bytes(<<"key">>), ByteArray(<<"key">>)}

Emails == {PyFalse, Str(<<"bob", "@", "example.com">>), Str(<<"bob">>)}

NextSettings ==
    \E data \in {<<"hello">>, <<"bye">>}, mp \in SecretKinds, h \in Durations,
       ask \in BOOLEAN, e \in Emails :
        SetSettings("n1", data, mp, h, ask, e, <<"ref">>, <<"g7Kp2QxZ9">>)

SpecSettings == InitSettings /\ [][NextSettings]_vars

(* The read-back path: one note is sent, read back and decrypted under      *)
(* several secrets; the three latest calls are kept                         *)

MaxRead == 8

InitRead == Start(MaxRead, 3)

RetryPasswords == {Str(<<"other">>), Str(<<"mysecret">>), Bytes(<<"g7Kp2QxZ9">>)}

NextRead ==
    \/ \E mp \in {PyFalse, Str(<<"mysecret">>)} :
           SetSettings("n1", <<"hello">>, mp, NoDuration, TRUE, PyFalse, <<>>,
                       <<"g7Kp2QxZ9">>)
    \/ \E v \in RetryPasswords : SetPassword("n1", v)
    \/ \E u \in Misuse : Encrypt("n1", u)
    \/ \E u \in Misuse : Decrypt("n1", u)
    \/ Send("n1", "serve")
    \/ ReadAndDestroy("n1", "serve")

SpecRead == InitRead /\ [][NextRead]_vars

(* The exchange: n1 writes and sends a note, n2 is given its link or its    *)
(* identifier and reads it, and either of them reads again                  *)

MaxExchange == 6

InitExchange == Start(MaxExchange, 1)

NextExchange ==
    \/ \E mp \in {PyFalse, Str(<<"mysecret">>)} :
           SetSettings("n1", <<"hello">>, mp, NoDuration, TRUE, PyFalse, <<>>,
                       <<"g7Kp2QxZ9">>)
    \/ \E u \in Misuse : Encrypt("n1", u)
    \/ Send("n1", "serve")
    \/ \E v \in ReadableLinks : SetLink("n2", v)
    \/ \E i \in Ids : SetId("n2", <<i>>)
    \/ \E u \in Misuse : Decrypt("n2", u)
    \/ \E n \in Notes, o \in {"serve", "html"} : ReadAndDestroy(n, o)
    \/ \E i \in Ids : Expire(i)

SpecExchange == InitExchange /\ [][NextExchange]_vars

-----------------------------------------------------------------------------
(* Properties *)

\* the latest calls are exactly these operations, in this order, all on note n, and
\* each of them returned
Ran(n, ops) ==
    /\ Len(calls) = Len(ops)
    /\ \A j \in 1..Len(ops) : calls[j].n = n /\ calls[j].op = ops[j] /\ calls[j].exc = "none"

\* the stored secret came from score_password
SecretGenerated(self) ==
    \E g \in GeneratedPasswords : self._password.v = Utf8Encode(g)

\* the atoms of the stored secret
SecretAtoms(self) == self._password.v

\* C1: after set_settings, encrypt and send, the link is note_link#secret exactly
\* when the secret was generated, and is note_link alone, without the secret, when
\* the caller supplied a manual secret
C1_LinkCarriesSecretIffGenerated ==
    \A n \in Notes :
        Ran(n, <<"set_settings", "encrypt", "send">>) =>
            LET self == note[n]
                link == LinkGet(self)
                withSecret == Ok(Str(self._response.note_link \o <<HASH>> \o
                                     Utf8Decode(SecretAtoms(self))))
            IN /\ (link = withSecret) <=> SecretGenerated(self)
               /\ Truthy(calls[1].value) =>
                      /\ link = Ok(Str(self._response.note_link))
                      /\ ~Contains(link.val.v, SecretAtoms(self))

\* the identifier and the secret a note URL holds: the origin, with or without its
\* scheme, then the identifier up to the first '#', then the secret
UrlPath(url) ==
    IF StartsWith(url, ORIGIN) THEN SubSeq(url, 3, Len(url))
    ELSE IF StartsWith(url, <<HOST>>) THEN SubSeq(url, 2, Len(url))
    ELSE url

UrlId(url) ==
    IF Contains(UrlPath(url), <<HASH>>) THEN SplitOnce(UrlPath(url), <<HASH>>)[1]
    ELSE UrlPath(url)

UrlSecret(url) ==
    IF Contains(UrlPath(url), <<HASH>>)
    THEN Bytes(Utf8Encode(SplitOnce(UrlPath(url), <<HASH>>)[2]))
    ELSE PyNone

\* C2: assigning a note URL to link stores the bare identifier and the secret as
\* bytes (no secret when the URL has no '#')
C2_LinkAssignmentParses ==
    \A n \in Notes :
        LastIs(n, "link") =>
            /\ Last.exc = "none"
            /\ note[n]._id = Str(UrlId(Last.value.v))
            /\ note[n]._password = UrlSecret(Last.value.v)

\* the step is a call of `op` on note n
Calling(n, op) == calls' # calls /\ Last'.n = n /\ Last'.op = op

\* C3: read_and_destroy on a note that was given a link and holds no response
\* hands the executor exactly one destructive read of origin/identifier, and
\* completes with the data stored as ciphertext when the answer carries data
C3_ReadOfAddressedNote ==
    [][\A n \in Notes :
          (Calling(n, "read_and_destroy") /\ note[n]._response.k = "NoneType"
              /\ Truthy(note[n]._id)) =>
             /\ Last'.nreq = 1
             /\ Len(log') = Len(log) + 1
             /\ log'[Len(log')].method = "DELETE"
             /\ log'[Len(log')].url = ORIGIN \o UrlId(note[n]._id.v)
             /\ log'[Len(log')].answer = "data" =>
                    /\ Last'.exc = "none"
                    /\ note'[n]._crypt_text.v = server[UrlId(note[n]._id.v)[1]].data]_vars

\* the latest request handed to the executor
LastRequest == log[Len(log)]

\* C4: read_and_destroy turns each answer into its own outcome: a body that is no
\* JSON into IncorrectIDException, a destroyed timestamp without data into
\* NoteDestroyedException carrying that timestamp, neither data nor destroyed
\* into PrivnoteException, and data into no error at all
C4_ReadErrorMapping ==
    \A n \in Notes :
        (LastIs(n, "read_and_destroy") /\ Last.nreq = 1) =>
            /\ LastRequest.answer = "html" => Last.exc = "IncorrectIDException"
            /\ LastRequest.answer = "destroyed" =>
                   Last.exc = "NoteDestroyedException" /\ Last.destroyed = <<DESTROYED_AT>>
            /\ LastRequest.answer = "blank" => Last.exc = "PrivnoteException"
            /\ LastRequest.answer = "data" => Last.exc = "none"
            /\ Last.exc = "none" => LastRequest.answer = "data"

\* a read of a note the service had destroyed ended in NoteDestroyedException
C4_Witness ==
    \E n \in Notes :
        /\ LastIs(n, "read_and_destroy")
        /\ Last.exc = "NoteDestroyedException"
        /\ LastRequest.answer = "destroyed"
        /\ note[n]._response.destroyed = <<DESTROYED_AT>>

\* the destructive reads of the identifier `url` addresses that were answered with data
Granted(url) ==
    {j \in DOMAIN log : /\ log[j].method = "DELETE"
                        /\ Addressed(log[j].url) = Addressed(url)
                        /\ log[j].answer = "data"}

\* C5: a read_and_destroy completes without error only in the one call whose own
\* request the service answered with the note's data; after that read of an
\* identifier no later call completes as a success for it
C5_NoSecondSuccessfulRead ==
    \A n \in Notes :
        (LastIs(n, "read_and_destroy") /\ Last.exc = "none") =>
            /\ Last.nreq = 1
            /\ LastRequest.method = "DELETE"
            /\ LastRequest.answer = "data"
            /\ Granted(LastRequest.url) = {Len(log)}
            /\ note[n]._crypt_text.v = server[Addressed(LastRequest.url)[1]].data

\* after a note's read had succeeded, another note object that holds the same
\* identifier was read, and the call ended in an error
C5_Witness ==
    \E n \in Notes, j \in DOMAIN log :
        /\ log[j].answer = "data"
        /\ log[j].n # n
        /\ LastIs(n, "read_and_destroy")
        /\ Last.exc # "none"
        /\ IdGet(note[n]).exc = "none"
        /\ Remove(IdGet(note[n]).val.v, ORIGIN) = Addressed(log[j].url)

\* C6: no request handed to the executor holds the note's secret, neither in the
\* URL nor in a field of the payload
C6_NoSecretInRequests ==
    \A j \in DOMAIN log :
        log[j].secret.v # <<>> =>
            /\ ~Contains(log[j].url, log[j].secret.v)
            /\ ~Contains(log[j].payload.notify_email, log[j].secret.v)
            /\ ~Contains(log[j].payload.notify_ref, log[j].secret.v)
            /\ ~Contains(log[j].payload.data.v, log[j].secret.v)

\* the error the specification names for an operation that needs a secret
SECRET_REQUIRED == "SecretRequiredError"

\* C7: encrypt and decrypt on a note without a secret fail with the dedicated
\* secret-required error
C7_SecretRequired ==
    \A n \in Notes :
        (Last.n = n /\ Last.op \in {"encrypt", "decrypt"}
            /\ note[n]._password.k = "NoneType") =>
           Last.exc = SECRET_REQUIRED

\* C9: set_settings(P, manual_pass=S), encrypt and decrypt, in this order, all
\* return and leave plain_text equal to P
C9_RoundTrip ==
    \A n \in Notes :
        (/\ Len(calls) = 3
         /\ \A j \in 1..3 : calls[j].n = n
         /\ calls[1].op = "set_settings" /\ calls[1].exc = "none"
         /\ calls[2].op = "encrypt" /\ calls[3].op = "decrypt") =>
            /\ calls[2].exc = "none"
            /\ calls[3].exc = "none"
            /\ PlainTextGet(note[n]) = Str(calls[1].data)

\* a text with a non-ASCII character went through encrypt and decrypt under a
\* manual secret given as bytes
C9_Witness ==
    /\ Ran("n1", <<"set_settings", "encrypt", "decrypt">>)
    /\ calls[1].data = <<"eacute", HASH, "bye">>
    /\ calls[1].value = Bytes(<<"xFF">>)
    /\ note["n1"]._plain_text = Str(<<"eacute", HASH, "bye">>)
    /\ note["n1"]._crypt_text.k = "bytes"

\* C10: assigning the link of a sent note whose secret travels in the link to the
\* link of another note gives that note the same identifier and the same secret
C10_LinkRoundTrip ==
    \A n \in Notes, m \in Notes :
        (/\ n # m
         /\ LastIs(n, "link")
         /\ note[m]._response.k = "dict"
         /\ ~note[m]._response.has_manual_pass
         /\ LinkGet(note[m]) = Ok(Last.value)) =>
            /\ Last.exc = "none"
            /\ IdGet(note[n]) = IdGet(note[m])
            /\ note[n]._password = note[m]._password

\* the bytes a value assigned to password stands for
Canonical(value) == IF value.k = "str" THEN Utf8Encode(value.v) ELSE value.v

\* the cipher rejects the secret of a note: the ciphertext is sound and was sealed
\* under another key
Rejects(self) ==
    /\ self._crypt_text.k \in {"str", "bytes"}
    /\ self._password.k \in {"bytes", "bytearray"}
    /\ WellSealed(self._crypt_text.v)
    /\ SealedKey(self._crypt_text.v) # self._password.v

\* a failed decrypt of a fetched ciphertext, the assignment of the right secret and
\* a second decrypt, with no request in between, give back the plaintext
C8_RetryRecovers ==
    \A n \in Notes :
        (/\ Len(calls) = 3
         /\ \A j \in 1..3 : calls[j].n = n
         /\ calls[1].op = "decrypt" /\ calls[1].exc = "IncorrectPasswordException"
         /\ calls[2].op = "password"
         /\ calls[3].op = "decrypt"
         /\ WellSealed(note[n]._crypt_text.v)
         /\ Canonical(calls[2].value) = SealedKey(note[n]._crypt_text.v)) =>
            /\ calls[3].exc = "none"
            /\ note[n]._plain_text = Str(Utf8Decode(SealedPlain(note[n]._crypt_text.v)))
            /\ \A j \in 1..3 : calls[j].nreq = 0

\* a decrypt the cipher rejects raises IncorrectPasswordException, and a decrypt
\* that raises it changes nothing and hands the executor nothing
C8_RejectedDecrypt ==
    \A n \in Notes :
        Calling(n, "decrypt") =>
            /\ Rejects(note[n]) => Last'.exc = "IncorrectPasswordException"
            /\ Last'.exc = "IncorrectPasswordException" =>
                   /\ note' = note
                   /\ log' = log
                   /\ server' = server
                   /\ Last'.nreq = 0

\* C8: when the cipher rejects the secret, decrypt raises the incorrect-secret error
\* and leaves ciphertext and plaintext as they were, and assigning the right secret
\* and decrypting again recovers the plaintext without a further request
C8_WrongSecretIsRetryable == [][C8_RejectedDecrypt]_vars /\ []C8_RetryRecovers

\* a fetched ciphertext was decrypted under a wrong secret, the right secret was
\* assigned, and the second decrypt gave the plaintext
C8_Witness ==
    /\ Len(calls) = 3
    /\ \A j \in 1..3 : calls[j].n = "n1"
    /\ calls[1].op = "decrypt" /\ calls[1].exc = "IncorrectPasswordException"
    /\ calls[2].op = "password"
    /\ calls[3].op = "decrypt" /\ calls[3].exc = "none"
    /\ note["n1"]._crypt_text.k = "str"
    /\ \E j \in DOMAIN log : log[j].answer = "data"
    /\ note["n1"]._plain_text = Str(<<"hello">>)

\* the notify_email a call was given passes the check of line 152
EmailAccepted(c) == ~Truthy(c.email) \/ is_email(c.email)

\* C11: set_settings raises the validation error for every duration_hours above
\* 720, and with the other options valid it succeeds for 0 and for 720, storing
\* them, and stores 0 for an omitted duration
C11_DurationLimit ==
    \A n \in Notes :
        LastIs(n, "set_settings") =>
            /\ (Last.hours.k = "int" /\ Last.hours.n > 720) => Last.exc = "ValueError"
            /\ (Last.hours \in {Hours(0), Hours(720)} /\ EmailAccepted(Last)) =>
                   /\ Last.exc = "none"
                   /\ note[n]._settings.duration_hours = Last.hours.n
            /\ (Last.hours = NoDuration /\ EmailAccepted(Last)) =>
                   /\ Last.exc = "none"
                   /\ note[n]._settings.duration_hours = 0

C11_Witness ==
    /\ LastIs("n1", "set_settings")
    /\ Last.hours = Hours(720)
    /\ Last.exc = "none"
    /\ note["n1"]._settings.duration_hours = 720

\* C12: whenever a note holds settings, their duration_hours lies in 0..720
C12_DurationInRange ==
    \A n \in Notes :
        note[n]._settings.k = "dict" => note[n]._settings.duration_hours \in 0..720

\* the stored secret is the manual secret the last call was given
SecretSupplied(self, c) ==
    /\ c.value.k \in {"str", "bytes", "bytearray"}
    /\ self._password.k \in {"bytes", "bytearray"}
    /\ self._password.v = Canonical(c.value)

\* C13: after a successful set_settings, has_manual_pass is "true" exactly when
\* the stored secret is the manual secret the caller supplied, and "false" exactly
\* when it is a freshly generated one, whatever the kind of manual_pass
C13_FlagTellsWhoseSecret ==
    \A n \in Notes :
        (LastIs(n, "set_settings") /\ Last.exc = "none") =>
            /\ note[n]._settings.has_manual_pass = "true" <=> SecretSupplied(note[n], Last)
            /\ note[n]._settings.has_manual_pass = "false" <=> SecretGenerated(note[n])

\* C19: a set_settings that raises the validation error leaves the plaintext, the
\* secret and the settings of the note as they were
C19_FailedSettingsChangeNothing ==
    [][\A n \in Notes :
          (Calling(n, "set_settings") /\ Last'.exc = "ValueError") =>
              /\ note'[n]._plain_text = note[n]._plain_text
              /\ note'[n]._password = note[n]._password
              /\ note'[n]._settings = note[n]._settings]_vars

C19_Witness ==
    /\ LastIs("n1", "set_settings")
    /\ Last.exc = "ValueError"
    /\ ~EmailAccepted(Last)
    /\ note["n1"]._settings.k = "dict"
    /\ note["n1"]._plain_text # Str(Last.data)

\* C14: after `id = X` the link reads https://privnote.com/X, and after the
\* assignment of a link for the identifier X the id reads X, with or without a
\* response stored
C14_IdAndLinkAgree ==
    \A n \in Notes :
        /\ LastIs(n, "id") =>
               LET l == LinkGet(note[n])
               IN /\ l.exc = "none"
                  /\ StartsWith(l.val.v, ORIGIN)
                  /\ UrlId(l.val.v) = Last.value.v
        /\ (LastIs(n, "link") /\ Last.exc = "none") =>
               IdGet(note[n]) = Ok(Str(UrlId(Last.value.v)))

\* C15: the stored secret is absent or bytes, and after every assignment that
\* stores one (password, link, set_settings) the password reads as text
C15_SecretIsBytes ==
    \A n \in Notes :
        /\ note[n]._password.k \in {"NoneType", "bytes", "bytearray"}
        /\ (/\ LastIs(n, "password") \/ LastIs(n, "link") \/ LastIs(n, "set_settings")
            /\ Last.exc = "none"
            /\ note[n]._password.k # "NoneType") => PasswordGet(note[n]).exc = "none"

\* C18: whenever send completes, the ciphertext it transmitted is the encryption
\* of the note's current plaintext under the note's current secret
C18_SentCiphertextIsCurrent ==
    \A n \in Notes :
        (LastIs(n, "send") /\ Last.exc = "none") =>
            LET e == enc(note[n]._plain_text, note[n]._password, "ValueError")
            IN /\ e.exc = "none"
               /\ LastRequest.n = n
               /\ LastRequest.payload.data = Str(Utf8Decode(e.val.v))

\* C16: send on a note that holds no ciphertext fails, hands the executor no
\* request and leaves the stored response as it was
C16_SendNeedsCiphertext ==
    [][\A n \in Notes :
          (Calling(n, "send") /\ note[n]._crypt_text.k = "NoneType") =>
              /\ Last'.exc # "none"
              /\ log' = log
              /\ note'[n]._response = note[n]._response]_vars

C16_Witness ==
    /\ LastIs("n1", "send")
    /\ Last.exc = "AttributeError"
    /\ note["n1"]._settings.k = "dict"
    /\ note["n1"]._plain_text.k = "str"
    /\ note["n1"]._crypt_text.k = "NoneType"
    /\ log = <<>>

\* C17: a call of send or read_and_destroy hands the executor at most one
\* request, also when the transport fails or the answer is an error
C17_OneRequestPerCall ==
    [][\A n \in Notes :
          (Calling(n, "send") \/ Calling(n, "read_and_destroy")) =>
              /\ Len(log') <= Len(log) + 1
              /\ SubSeq(log', 1, Len(log)) = log]_vars

C17_Witness ==
    /\ LastIs("n1", "send")
    /\ Last.exc = "ConnectionError"
    /\ Len(log) = 1
    /\ log[1].method = "POST"

====
